---- MODULE Spec2Model ----
(***************************************************************************)
(* Model of the Handestiy storefront API (src/main.py, src/schemas.py):    *)
(* admin accounts and bearer tokens, the admin gate, category / product /  *)
(* order handlers over the document store, and the catalogue listing.      *)
(*                                                                         *)
(* A collection is the sequence of its documents in insertion (natural)    *)
(* order.  An optional value (a find_one result, the current_token field   *)
(* of an account, an optional query parameter) is a sequence of length 0   *)
(* or 1.  Time is counted in hours.                                        *)
(***************************************************************************)
EXTENDS Integers, Sequences, FiniteSets, TLC

VARIABLES adminuser, category, product, order, now, nextId, nextToken,
          pending, issued, last

vars == <<adminuser, category, product, order, now, nextId, nextToken,
          pending, issued, last>>

(* ------------------------------ bounds ------------------------------- *)
MaxTime == 16
MaxId == 3
MaxTokens == 2
MaxProducts == 2
MaxPage == 2
MaxLimit == 2

(* -------------------------- program constants ------------------------ *)
TokenHours == 8
DefaultLimit == 12

(* ------------------------------ inputs ------------------------------- *)
Clients == {"c1", "c2"}
Emails == {"a@shop", "b@shop"}
Passwords == {"pw1", "pw2"}
Slugs == {"mugs", "bowls"}
OrderStatus == {"Pending", "Shipped", "Delivered", "Cancelled"}
MalformedId == -1
PathIds == (1..MaxId) \cup {MalformedId}

None == <<>>
Some(x) == <<x>>

NoHeader == [scheme |-> "none", token |-> 0]
Bearer(t) == [scheme |-> "Bearer", token |-> t]
Headers == {NoHeader, [scheme |-> "Basic", token |-> 1]}
              \cup {Bearer(t) : t \in 0..MaxTokens}

(* ------------------------------ helpers ------------------------------ *)
Min(S) == CHOOSE x \in S : \A y \in S : x <= y

\* hash_password: a deterministic injective digest of the password.
hash_password(password) == <<"sha256", password>>

\* ObjectId(s) raises for a malformed path identifier.
ObjectIdValid(id) == id >= 1

\* collection.find_one(filter): the first document, in natural order,
\* that satisfies the filter; matches is the set of positions of the
\* documents that satisfy it.
FindOne(coll, matches) ==
    IF matches = {} THEN None ELSE Some(coll[Min(matches)])

\* {"current_token.token": token}
ByToken(token) ==
    {i \in DOMAIN adminuser :
        /\ adminuser[i].current_token # None
        /\ adminuser[i].current_token[1].token = token}

\* {"email": email}
ByEmail(email) == {i \in DOMAIN adminuser : adminuser[i].email = email}

\* {"slug": slug}
BySlug(coll, slug) == {i \in DOMAIN coll : coll[i].slug = slug}

\* collection.delete_one({"_id": id})
DeleteOne(coll, id) ==
    LET idx == {i \in DOMAIN coll : coll[i]._id = id}
    IN  IF idx = {} THEN coll
        ELSE LET k == Min(idx)
             IN  SubSeq(coll, 1, k - 1) \o SubSeq(coll, k + 1, Len(coll))

Idle == [op |-> "idle"]

\* the last step: the handler, the HTTP status (0 while a request is between
\* two of its store operations) and the body of a listing; list_products
\* also records the category and sort parameters it was called with
RespBody(op, code, body) == [op |-> op, code |-> code, body |-> body]
Resp(op, code) == RespBody(op, code, [items |-> <<>>])

(* ------------------------------- auth -------------------------------- *)
get_admin_by_token_ge(token) ==
    IF token = 0 THEN None
    ELSE LET admin == FindOne(adminuser, ByToken(token))
         IN  IF admin # None /\ now >= admin[1].current_token[1].expires_at
             THEN None
             ELSE admin

\* get_admin_by_token: the token 0 stands for the empty string.
get_admin_by_token(token) ==
    IF token = 0 THEN None
    ELSE LET admin == FindOne(adminuser, ByToken(token))
         IN  IF admin # None /\ now > admin[1].current_token[1].expires_at
             THEN None
             ELSE admin

require_admin_any_bearer(authorization) ==
    IF authorization.scheme # "Bearer" THEN None
    ELSE Some([_id |-> 0])

\* require_admin: None stands for the 401 it raises.
require_admin(authorization) ==
    IF authorization.scheme # "Bearer" THEN None
    ELSE get_admin_by_token(authorization.token)

\* seed_admin, lines 94-96: the lookup by email and the conflict.
SeedLookup(c, email, password) ==
    /\ pending[c] = Idle
    /\ IF FindOne(adminuser, ByEmail(email)) # None
       THEN /\ last' = Resp("seed_admin", 400)
            /\ UNCHANGED pending
       ELSE /\ pending' = [pending EXCEPT ![c] =
                  [op |-> "seed_admin", email |-> email, password |-> password]]
            /\ last' = Resp("seed_admin", 0)
    /\ UNCHANGED <<adminuser, category, product, order, now, nextId,
                   nextToken, issued>>

\* seed_admin, lines 97-102: the insert.
SeedInsert(c) ==
    /\ pending[c].op = "seed_admin"
    /\ nextId < MaxId
    /\ adminuser' = Append(adminuser,
          [_id |-> nextId + 1,
           email |-> pending[c].email,
           password |-> hash_password(pending[c].password),
           created_at |-> now,
           current_token |-> None])
    /\ nextId' = nextId + 1
    /\ pending' = [pending EXCEPT ![c] = Idle]
    /\ last' = Resp("seed_admin", 200)
    /\ UNCHANGED <<category, product, order, now, nextToken, issued>>

CredentialsAccepted_no_password(admin, password) ==
    admin # None

\* admin_login, line 112
CredentialsAccepted(admin, password) ==
    admin # None /\ admin[1].password = hash_password(password)

\* admin_login, lines 111-115: lookup, password check, fresh token, expiry.
LoginLookup(c, email, password) ==
    /\ pending[c] = Idle
    /\ LET admin == FindOne(adminuser, ByEmail(email))
       IN  IF ~CredentialsAccepted(admin, password)
           THEN /\ last' = Resp("admin_login", 401)
                /\ UNCHANGED <<pending, nextToken>>
           ELSE /\ nextToken < MaxTokens
                /\ nextToken' = nextToken + 1
                /\ pending' = [pending EXCEPT ![c] =
                      [op |-> "admin_login", _id |-> admin[1]._id,
                       token |-> nextToken + 1, t0 |-> now,
                       expires_at |-> now + TokenHours]]
                /\ last' = Resp("admin_login", 0)
    /\ UNCHANGED <<adminuser, category, product, order, now, nextId,
                   issued>>

SetToken_keep_first(coll, id, ct) ==
    [i \in DOMAIN coll |->
        IF coll[i]._id = id /\ coll[i].current_token = None
        THEN [coll[i] EXCEPT !.current_token = Some(ct)]
        ELSE coll[i]]

\* update_one({"_id": id}, {"$set": {"current_token": ct}})
SetToken(coll, id, ct) ==
    [i \in DOMAIN coll |->
        IF coll[i]._id = id
        THEN [coll[i] EXCEPT !.current_token = Some(ct)]
        ELSE coll[i]]

\* admin_login, lines 116-117: the token is stored and returned.
LoginStore(c) ==
    /\ pending[c].op = "admin_login"
    /\ LET p == pending[c]
           ct == [token |-> p.token, expires_at |-> p.expires_at]
       IN  /\ adminuser' = SetToken(adminuser, p._id, ct)
           /\ issued' = Append(issued,
                 [token |-> p.token, expires_at |-> p.expires_at,
                  t0 |-> p.t0, account |-> p._id])
           /\ last' = Resp("admin_login", 200)
    /\ pending' = [pending EXCEPT ![c] = Idle]
    /\ UNCHANGED <<category, product, order, now, nextId, nextToken>>

\* the clock advances
Tick(d) ==
    /\ now + d <= MaxTime
    /\ now' = now + d
    /\ last' = Resp("tick", 0)
    /\ UNCHANGED <<adminuser, category, product, order, nextId, nextToken,
                   pending, issued>>

(* ------------------------- document store ---------------------------- *)
\* {"$set": fields} applied to one document
SetFields(doc, fields) ==
    [f \in (DOMAIN doc) \cup (DOMAIN fields) |->
        IF f \in DOMAIN fields THEN fields[f] ELSE doc[f]]

UpdateOne_upsert(coll, id, fields) ==
    IF \E i \in DOMAIN coll : coll[i]._id = id
    THEN [i \in DOMAIN coll |->
            IF coll[i]._id = id THEN SetFields(coll[i], fields) ELSE coll[i]]
    ELSE Append(coll, SetFields([_id |-> id], fields))

\* collection.update_one({"_id": id}, {"$set": fields}); identifiers are
\* unique, so the first match is the only one.  No upsert.
UpdateOne(coll, id, fields) ==
    [i \in DOMAIN coll |->
        IF coll[i]._id = id THEN SetFields(coll[i], fields) ELSE coll[i]]

\* collection.insert_one({**body, "created_at": now}) with a fresh _id
InsertOne(coll, body) ==
    Append(coll, SetFields([_id |-> nextId + 1, created_at |-> now], body))

(* ----------------------------- categories ---------------------------- *)
\* create_category
create_category(authorization, body) ==
    /\ IF require_admin(authorization) = None
       THEN /\ last' = Resp("create_category", 401)
            /\ UNCHANGED <<category, nextId>>
       ELSE IF FindOne(category, BySlug(category, body.slug)) # None
       THEN /\ last' = Resp("create_category", 400)
            /\ UNCHANGED <<category, nextId>>
       ELSE /\ nextId < MaxId
            /\ category' = InsertOne(category, body)
            /\ nextId' = nextId + 1
            /\ last' = Resp("create_category", 200)
    /\ UNCHANGED <<adminuser, product, order, now, nextToken, pending,
                   issued>>

\* update_category
update_category(authorization, cat_id, body) ==
    /\ IF require_admin(authorization) = None
       THEN /\ last' = Resp("update_category", 401)
            /\ UNCHANGED category
       ELSE IF ~ObjectIdValid(cat_id)
       THEN /\ last' = Resp("update_category", 400)
            /\ UNCHANGED category
       ELSE /\ category' = UpdateOne(category, cat_id, body)
            /\ last' = Resp("update_category", 200)
    /\ UNCHANGED <<adminuser, product, order, now, nextId, nextToken, pending,
                   issued>>

\* delete_category
delete_category(authorization, cat_id) ==
    /\ IF require_admin(authorization) = None
       THEN /\ last' = Resp("delete_category", 401)
            /\ UNCHANGED category
       ELSE IF ~ObjectIdValid(cat_id)
       THEN /\ last' = Resp("delete_category", 400)
            /\ UNCHANGED category
       ELSE /\ category' = DeleteOne(category, cat_id)
            /\ last' = Resp("delete_category", 200)
    /\ UNCHANGED <<adminuser, product, order, now, nextId, nextToken, pending,
                   issued>>

(* ------------------------------ products ----------------------------- *)
\* create_product
create_product(authorization, body) ==
    /\ IF require_admin(authorization) = None
       THEN /\ last' = Resp("create_product", 401)
            /\ UNCHANGED <<product, nextId>>
       ELSE IF FindOne(product, BySlug(product, body.slug)) # None
       THEN /\ last' = Resp("create_product", 400)
            /\ UNCHANGED <<product, nextId>>
       ELSE /\ nextId < MaxId
            /\ product' = InsertOne(product, body)
            /\ nextId' = nextId + 1
            /\ last' = Resp("create_product", 200)
    /\ UNCHANGED <<adminuser, category, order, now, nextToken, pending,
                   issued>>

\* update_product
update_product(authorization, pid, body) ==
    /\ IF require_admin(authorization) = None
       THEN /\ last' = Resp("update_product", 401)
            /\ UNCHANGED product
       ELSE IF ~ObjectIdValid(pid)
       THEN /\ last' = Resp("update_product", 400)
            /\ UNCHANGED product
       ELSE /\ product' = UpdateOne(product, pid, body)
            /\ last' = Resp("update_product", 200)
    /\ UNCHANGED <<adminuser, category, order, now, nextId, nextToken, pending,
                   issued>>

\* delete_product
delete_product(authorization, pid) ==
    /\ IF require_admin(authorization) = None
       THEN /\ last' = Resp("delete_product", 401)
            /\ UNCHANGED product
       ELSE IF ~ObjectIdValid(pid)
       THEN /\ last' = Resp("delete_product", 400)
            /\ UNCHANGED product
       ELSE /\ product' = DeleteOne(product, pid)
            /\ last' = Resp("delete_product", 200)
    /\ UNCHANGED <<adminuser, category, order, now, nextId, nextToken, pending,
                   issued>>

(* ------------------------------ sorting ------------------------------ *)
\* cursor.sort(field, dir): documents in key order; documents with equal
\* keys keep the order in which the scan delivered them.  Each document
\* goes to the position given by the number of documents sorted before it.
SortBy(docs, field, dir) ==
    LET n == Len(docs)
        before(j, i) ==
            \/ dir * docs[j][field] < dir * docs[i][field]
            \/ docs[j][field] = docs[i][field] /\ j < i
        rank == [i \in 1..n |-> Cardinality({j \in 1..n : before(j, i)}) + 1]
    IN  [p \in 1..n |-> docs[CHOOSE i \in 1..n : rank[i] = p]]

\* The store returns documents with equal sort keys in any order: a scan
\* is any arrangement of the matching documents.
MaxDocs == IF MaxId > MaxProducts THEN MaxId ELSE MaxProducts

Arrangements ==
    [n \in 0..MaxDocs |->
        {f \in [1..n -> 1..n] : \A i, j \in 1..n : f[i] = f[j] => i = j}]

Scans(docs) ==
    {[i \in 1..Len(docs) |-> docs[f[i]]] : f \in Arrangements[Len(docs)]}

\* cursor.skip(skip).limit(limit), limit >= 1
SkipLimit(docs, skip, limit) ==
    SubSeq(docs, skip + 1, IF skip + limit < Len(docs) THEN skip + limit ELSE Len(docs))

(* ------------------------------- orders ------------------------------ *)
\* create_order: the Order schema rejects a status outside the Literal
\* and supplies 'Pending' when the body has none; created_at is stamped.
create_order(customer, status) ==
    /\ IF status # None /\ status[1] \notin OrderStatus
       THEN /\ last' = Resp("create_order", 422)
            /\ UNCHANGED <<order, nextId>>
       ELSE /\ nextId < MaxId
            /\ order' = InsertOne(order,
                  [customer |-> customer,
                   status |-> IF status = None THEN "Pending" ELSE status[1]])
            /\ nextId' = nextId + 1
            /\ last' = Resp("create_order", 200)
    /\ UNCHANGED <<adminuser, category, product, now, nextToken, pending,
                   issued>>

\* lower-case of a character of the small alphabet used for names
Lower(ch) == IF ch = "A" THEN "a" ELSE IF ch = "B" THEN "b" ELSE ch

\* {"$regex": search, "$options": "i"} for a search text without
\* metacharacters: a case-insensitive substring match
RegexMatchI(search, text) ==
    \E k \in 0..(Len(text) - Len(search)) :
        \A i \in 1..Len(search) : Lower(text[k + i]) = Lower(search[i])

\* list_orders
list_orders(authorization, status, search) ==
    /\ IF require_admin(authorization) = None
       THEN last' = Resp("list_orders", 401)
       ELSE LET q(o) == /\ (status # None /\ status[1] # "") => o.status = status[1]
                        /\ (search # None /\ search[1] # <<>>) =>
                              \/ RegexMatchI(search[1], o.customer.name)
                              \/ RegexMatchI(search[1], o.customer.email)
                found == SelectSeq(order, q)
            IN  \E scan \in Scans(found) :
                   last' = RespBody("list_orders", 200,
                                    [items |-> SortBy(scan, "created_at", -1)])
    /\ UNCHANGED <<adminuser, category, product, order, now, nextId, nextToken,
                   pending, issued>>

\* update_order_status
update_order_status(authorization, oid, status) ==
    /\ IF require_admin(authorization) = None
       THEN /\ last' = Resp("update_order_status", 401)
            /\ UNCHANGED order
       ELSE IF ~ObjectIdValid(oid)
       THEN /\ last' = Resp("update_order_status", 400)
            /\ UNCHANGED order
       ELSE /\ order' = UpdateOne(order, oid, [status |-> status])
            /\ last' = Resp("update_order_status", 200)
    /\ UNCHANGED <<adminuser, category, product, now, nextId, nextToken, pending,
                   issued>>

(* -------------------------- catalogue listing ------------------------ *)
Skip_page_times_limit(page, limit) == page * limit

\* list_products, line 175: skip = (page-1)*limit
Skip(page, limit) == (page - 1) * limit

\* list_products, lines 164-166: the query predicate
ProductQuery(category_filter, d) ==
    /\ d.active
    /\ (category_filter # None /\ category_filter[1] # ""
          /\ category_filter[1] # "All")
          => d.category = category_filter[1]

\* list_products
list_products(category_filter, sort, page, limit) ==
    /\ LET q(d) == ProductQuery(category_filter, d)
           found == SelectSeq(product, q)
           sorted(scan) ==
               IF sort = "price_asc" THEN SortBy(scan, "price", 1)
               ELSE IF sort = "price_desc" THEN SortBy(scan, "price", -1)
               ELSE SortBy(scan, "created_at", -1)
       IN  \E scan \in Scans(found) :
              last' = [op |-> "list_products", code |-> 200,
                       query |-> [category |-> category_filter, sort |-> sort],
                       body |-> [items |-> SkipLimit(sorted(scan), Skip(page, limit), limit),
                                 total |-> Len(found), page |-> page, limit |-> limit]]
    /\ UNCHANGED <<adminuser, category, product, order, now, nextId, nextToken,
                   pending, issued>>

(* --------------------------- specifications -------------------------- *)
Init ==
    /\ adminuser = <<>>
    /\ category = <<>>
    /\ product = <<>>
    /\ order = <<>>
    /\ now = 0
    /\ nextId = 0
    /\ nextToken = 0
    /\ pending = [c \in Clients |-> Idle]
    /\ issued = <<>>
    /\ last = Resp("init", 0)

\* Accounts and sessions: concurrent seed and login requests, the clock,
\* and an admin-gated request as the authentication probe.
Next ==
    \/ \E c \in Clients, e \in Emails : SeedLookup(c, e, "pw1")
    \/ \E c \in Clients : SeedInsert(c)
    \/ \E c \in Clients, e \in Emails, p \in Passwords : LoginLookup(c, e, p)
    \/ \E c \in Clients : LoginStore(c)
    \/ Tick(8)
    \/ \E h \in Headers : list_orders(h, None, None)

Spec == Init /\ [][Next]_vars

\* The handlers: one client signs in and works on the three collections.
TheAdmin == "a@shop"
ThePassword == "pw1"
CategoryBodies == [name : {"Mugs"}, slug : {"mugs"}, active : {TRUE}]
ProductBodies == [slug : {"cup"}, price : {10}, category : {"mugs"}, active : {TRUE}]
Customers == {[name |-> <<"A", "l">>, email |-> <<"a", "@", "x">>]}
Searches == {None, Some(<<"a">>)}
CreateStatuses == {None, Some("Delivered"), Some("Refunded")}
UpdateStatuses == {"Shipped", "Refunded"}
OrderHeaders == {NoHeader, Bearer(1)}

SignIn ==
    \/ SeedLookup("c1", TheAdmin, ThePassword)
    \/ SeedInsert("c1")
    \/ LoginLookup("c1", TheAdmin, ThePassword)
    \/ LoginStore("c1")
    \/ Tick(12)

\* The admin signs in once: token 1 is the stored one, valid or expired,
\* and token 2 is a token that no account stores.
AdminHeaders == {NoHeader, [scheme |-> "Basic", token |-> 1],
                 Bearer(0), Bearer(1), Bearer(2)}

NextAdmin ==
    \/ SeedLookup("c1", TheAdmin, ThePassword)
    \/ SeedInsert("c1")
    \/ nextToken = 0 /\ LoginLookup("c1", TheAdmin, ThePassword)
    \/ LoginStore("c1")
    \/ Tick(12)
    \/ \E h \in AdminHeaders, b \in CategoryBodies : create_category(h, b)
    \/ \E h \in AdminHeaders, id \in PathIds, b \in CategoryBodies :
          update_category(h, id, b)
    \/ \E h \in AdminHeaders, id \in PathIds : delete_category(h, id)
    \/ \E h \in AdminHeaders, b \in ProductBodies : create_product(h, b)
    \/ \E h \in AdminHeaders, id \in PathIds, b \in ProductBodies :
          update_product(h, id, b)
    \/ \E h \in AdminHeaders, id \in PathIds : delete_product(h, id)
    \/ \E c \in Customers : create_order(c, None)
    \/ \E h \in AdminHeaders : list_orders(h, None, None)
    \/ \E h \in AdminHeaders, id \in PathIds : update_order_status(h, id, "Shipped")

SpecAdmin == Init /\ [][NextAdmin]_vars

\* Orders: public creation, admin listing and status updates.
NextOrders ==
    \/ SignIn
    \/ \E c \in Customers, s \in CreateStatuses : create_order(c, s)
    \/ \E h \in OrderHeaders, s \in {None, Some("Pending")}, q \in Searches :
          list_orders(h, s, q)
    \/ \E h \in OrderHeaders, id \in PathIds, s \in UpdateStatuses :
          update_order_status(h, id, s)

SpecOrders == Init /\ [][NextOrders]_vars

\* Catalogue management: categories and products under changing slugs.
CatalogHeaders == {NoHeader, Bearer(1)}
CatalogIds == 1..MaxId
SlugCategoryBodies == [name : {"Mugs"}, slug : Slugs, active : {TRUE}]
SlugProductBodies == [slug : Slugs, price : {10}, category : {"mugs"}, active : BOOLEAN]

NextCatalog ==
    \/ SignIn
    \/ \E h \in CatalogHeaders, b \in SlugCategoryBodies : create_category(h, b)
    \/ \E h \in CatalogHeaders, id \in CatalogIds, b \in SlugCategoryBodies :
          update_category(h, id, b)
    \/ \E h \in CatalogHeaders, id \in CatalogIds : delete_category(h, id)
    \/ \E h \in CatalogHeaders, b \in SlugProductBodies : create_product(h, b)
    \/ \E h \in CatalogHeaders, id \in CatalogIds, b \in SlugProductBodies :
          update_product(h, id, b)
    \/ \E h \in CatalogHeaders, id \in CatalogIds : delete_product(h, id)

SpecCatalog == Init /\ [][NextCatalog]_vars

\* The catalogue listing over every small product collection.  The start
\* is the state after seed and login at hour 0 and product creations and
\* updates up to hour 8: identifiers and creation times follow insertion.
ListSlugs == <<"cup", "bowl", "vase", "plate", "jar">>
ProductFields == [price : {10, 20}, category : {"mugs", "bowls"},
                  active : BOOLEAN, created_at : {0, 8}]
ProductColls ==
    UNION {{[i \in 1..n |-> [_id |-> i + 1, slug |-> ListSlugs[i],
                             price |-> f[i].price, category |-> f[i].category,
                             active |-> f[i].active,
                             created_at |-> f[i].created_at]] :
              f \in {g \in [1..n -> ProductFields] :
                        \A i, j \in 1..n :
                           i < j => g[i].created_at <= g[j].created_at}} :
           n \in 0..MaxProducts}

CategoryFilters == {None, Some(""), Some("All"), Some("mugs")}
Sorts == {"price_asc", "price_desc", "newest"}
Pages == 1..MaxPage
Limits == (1..MaxLimit) \cup {DefaultLimit}

InitList ==
    /\ adminuser = <<[_id |-> 1, email |-> TheAdmin,
                      password |-> hash_password(ThePassword), created_at |-> 0,
                      current_token |-> Some([token |-> 1, expires_at |-> TokenHours])]>>
    /\ issued = <<[token |-> 1, expires_at |-> TokenHours, t0 |-> 0, account |-> 1]>>
    /\ nextToken = 1
    /\ category = <<>>
    /\ order = <<>>
    /\ product \in ProductColls
    /\ now = 8
    /\ nextId = 1 + Len(product)
    /\ pending = [c \in Clients |-> Idle]
    /\ last = Resp("init", 0)

\* One call per behaviour: list_products writes nothing and does not read
\* the previous response, so a second call repeats what a first call does.
NextList ==
    /\ last.op = "init"
    /\ \E cf \in CategoryFilters, sort \in Sorts, page \in Pages, limit \in Limits :
          list_products(cf, sort, page, limit)

SpecList == InitList /\ [][NextList]_vars

(* ------------------------- accounts and tokens ----------------------- *)
Accounts == {adminuser[i] : i \in DOMAIN adminuser}

\* an account holds the token and its stored expiry has not passed
HoldsValid(a, tok) ==
    /\ a.current_token # None
    /\ a.current_token[1].token = tok
    /\ now <= a.current_token[1].expires_at

Authenticates(tok) == get_admin_by_token(tok) # None

\* no login on the same account stored its token after issued[i]
LatestOnAccount(i) ==
    \A j \in DOMAIN issued : j > i => issued[j].account # issued[i].account

\* C2: a token returned by a login at time t0 expires at t0 + 8 hours; while
\* it is the latest token of its account it authenticates exactly when
\* now <= expiresAt; and any token authenticates iff some account stores it
\* with an expiry that has not passed.
C2_TokenValidWithinEightHours ==
    /\ \A i \in DOMAIN issued : issued[i].expires_at = issued[i].t0 + 8
    /\ \A i \in DOMAIN issued :
          LatestOnAccount(i) =>
             (Authenticates(issued[i].token) <=> now <= issued[i].expires_at)
    /\ \A tok \in 0..(MaxTokens + 1) :
          Authenticates(tok) <=> \E a \in Accounts : HoldsValid(a, tok)

\* one token is past its expiry and rejected while another, on another
\* account, is accepted at the very hour it expires
C2_Witness ==
    \E i, j \in DOMAIN issued :
        /\ issued[i].account # issued[j].account
        /\ now > issued[i].expires_at /\ ~Authenticates(issued[i].token)
        /\ now = issued[j].expires_at /\ Authenticates(issued[j].token)

\* C3: each account has at most one token that authenticates, and a token
\* returned by a login is rejected once a later login on the same account
\* has stored its own token.
C3_OneSessionPerAccount ==
    /\ \A a \in Accounts :
          Cardinality({tok \in 1..MaxTokens :
                          /\ Authenticates(tok)
                          /\ get_admin_by_token(tok)[1]._id = a._id}) <= 1
    /\ \A i, j \in DOMAIN issued :
          (i < j /\ issued[i].account = issued[j].account)
             => ~Authenticates(issued[i].token)

\* two logins on one account interleaved: the token generated second was
\* stored first, is still within its own expiry, and is rejected
C3_Witness ==
    \E i, j \in DOMAIN issued :
        /\ i < j /\ issued[i].account = issued[j].account
        /\ issued[i].token > issued[j].token
        /\ now <= issued[i].expires_at
        /\ ~Authenticates(issued[i].token)
        /\ Authenticates(issued[j].token)

\* C9: the adminuser collection holds at most one account per email.
C9_EmailUnique ==
    \A i, j \in DOMAIN adminuser :
        adminuser[i].email = adminuser[j].email => i = j

\* no account has that email, or none with that email stores H(password)
LoginFails(email, password) ==
    \A a \in Accounts : a.email = email => a.password # hash_password(password)

\* C10: a login with an unknown email or a wrong password is answered 401
\* and leaves the adminuser collection unchanged, so every token that
\* authenticated before it still authenticates after it.
C10_FailedLoginChangesNothing ==
    [][(/\ last'.op = "admin_login"
        /\ ~ (/\ last' = Resp("admin_login", 401)
              /\ adminuser' = adminuser
              /\ \A tok \in 1..MaxTokens :
                    Authenticates(tok) => Authenticates(tok)'))
          => \A c \in Clients, e \in Emails, p \in Passwords :
                LoginFails(e, p) => ~LoginLookup(c, e, p)]_vars

\* a login was just refused while a token issued earlier is still accepted
C10_Witness ==
    /\ last = Resp("admin_login", 401)
    /\ \E i \in DOMAIN issued : Authenticates(issued[i].token)

(* -------------------------- catalogue listing ------------------------ *)
\* the reference order of a sort parameter: d comes strictly before e
Before(sort, d, e) ==
    IF sort = "price_asc" THEN d.price < e.price
    ELSE IF sort = "price_desc" THEN d.price > e.price
    ELSE d.created_at > e.created_at

\* the reference filter: active products, of the category when a non-empty
\* category other than "All" is given
Matching(cf) ==
    {d \in {product[i] : i \in DOMAIN product} :
        /\ d.active = TRUE
        /\ (cf # None /\ cf[1] # "" /\ cf[1] # "All") => d.category = cf[1]}

\* C7: list_products returns total = |F| and, as items, the elements at
\* positions (page-1)*limit+1 .. page*limit of the matching products F in
\* the order of the sort parameter; no inactive product is returned.
C7_ListingIsReferencePage ==
    last.op = "list_products" =>
       LET F == Matching(last.query.category)
           sort == last.query.sort
           page == last.body.page
           limit == last.body.limit
           items == last.body.items
           first == (page - 1) * limit
           rest == IF Cardinality(F) > first THEN Cardinality(F) - first ELSE 0
       IN  /\ last.code = 200
           /\ last.body.total = Cardinality(F)
           /\ Len(items) = IF rest < limit THEN rest ELSE limit
           /\ \A k \in DOMAIN items :
                 /\ items[k] \in F
                 /\ items[k].active
                 /\ Cardinality({d \in F : Before(sort, d, items[k])}) <= first + k - 1
                 /\ Cardinality({d \in F : ~Before(sort, items[k], d)}) >= first + k
           /\ \A k, l \in DOMAIN items : items[k] = items[l] => k = l

\* page 2 of a price-ascending listing with limit 1 over two matching
\* products of different price: the dearer one, out of a total of 2
C7_Witness ==
    /\ last.op = "list_products"
    /\ last.query.sort = "price_asc"
    /\ last.body.page = 2 /\ last.body.limit = 1
    /\ last.body.total = 2 /\ Len(last.body.items) = 1
    /\ \E i \in DOMAIN product :
          product[i].active /\ product[i].price < last.body.items[1].price

(* ------------------------------ admin gate --------------------------- *)
\* the header is missing, is not a Bearer header, or carries a token that
\* no account stores with an expiry that has not passed
Unauthorized(h) ==
    \/ h.scheme # "Bearer"
    \/ ~ \E a \in Accounts : HoldsValid(a, h.token)

Refused401 ==
    /\ last'.code = 401
    /\ UNCHANGED <<adminuser, category, product, order>>

AdminGated ==
    {"create_category", "update_category", "delete_category",
     "create_product", "update_product", "delete_product",
     "list_orders", "update_order_status"}

\* the step is the handler named by last'.op called with header h
HandledWith(h) ==
    CASE last'.op = "create_category" ->
            \E b \in CategoryBodies : create_category(h, b)
      [] last'.op = "update_category" ->
            \E id \in PathIds, b \in CategoryBodies : update_category(h, id, b)
      [] last'.op = "delete_category" ->
            \E id \in PathIds : delete_category(h, id)
      [] last'.op = "create_product" ->
            \E b \in ProductBodies : create_product(h, b)
      [] last'.op = "update_product" ->
            \E id \in PathIds, b \in ProductBodies : update_product(h, id, b)
      [] last'.op = "delete_product" ->
            \E id \in PathIds : delete_product(h, id)
      [] last'.op = "list_orders" -> list_orders(h, None, None)
      [] last'.op = "update_order_status" ->
            \E id \in PathIds : update_order_status(h, id, "Shipped")
      [] OTHER -> FALSE

\* C1: every admin-gated operation answers an unauthorized request with
\* 401 and leaves every collection unchanged, also when the path
\* identifier is malformed.
C1_GateBeforeHandler ==
    [][(last'.op \in AdminGated /\ ~Refused401) =>
          \A h \in AdminHeaders : Unauthorized(h) => ~HandledWith(h)]_vars

\* a status update was just refused while an order is stored and the only
\* token ever issued has expired
C1_Witness ==
    /\ last = Resp("update_order_status", 401)
    /\ order # <<>>
    /\ issued # <<>>
    /\ \A i \in DOMAIN issued : now > issued[i].expires_at

Ids(coll) == {coll[i]._id : i \in DOMAIN coll}

Succeeded200 ==
    /\ last'.code = 200
    /\ UNCHANGED <<adminuser, category, product, order>>

UpdatesAndDeletes ==
    {"update_category", "delete_category", "update_product", "delete_product",
     "update_order_status"}

\* the step is the update or delete named by last'.op, called with header
\* h and a well-formed identifier that matches no document of its collection
HandledOnMissing(h, id) ==
    CASE last'.op = "update_category" ->
            /\ id \notin Ids(category)
            /\ \E b \in CategoryBodies : update_category(h, id, b)
      [] last'.op = "delete_category" ->
            id \notin Ids(category) /\ delete_category(h, id)
      [] last'.op = "update_product" ->
            /\ id \notin Ids(product)
            /\ \E b \in ProductBodies : update_product(h, id, b)
      [] last'.op = "delete_product" ->
            id \notin Ids(product) /\ delete_product(h, id)
      [] last'.op = "update_order_status" ->
            id \notin Ids(order) /\ update_order_status(h, id, "Shipped")
      [] OTHER -> FALSE

\* C8: an authenticated update or delete whose well-formed identifier
\* matches no document answers 200 and changes no collection; a delete
\* leaves no document with its identifier, so repeating it is such a no-op.
C8_MissingIdIsNoOp ==
    [][/\ (last'.op \in UpdatesAndDeletes /\ ~Succeeded200) =>
             \A h \in AdminHeaders, id \in 1..MaxId :
                ~Unauthorized(h) => ~HandledOnMissing(h, id)
       /\ (last'.op = "delete_category" /\ last'.code = 200) =>
             \A h \in AdminHeaders, id \in 1..MaxId :
                delete_category(h, id) => id \notin Ids(category')
       /\ (last'.op = "delete_product" /\ last'.code = 200) =>
             \A h \in AdminHeaders, id \in 1..MaxId :
                delete_product(h, id) => id \notin Ids(product')]_vars

\* a status update just succeeded on an empty order collection while a
\* category is stored
C8_Witness ==
    /\ last = Resp("update_order_status", 200)
    /\ order = <<>>
    /\ category # <<>>

(* ------------------------------- orders ------------------------------ *)
\* C5: the status of every stored order is one of the four order states.
C5_StatusInAllowedSet ==
    \A i \in DOMAIN order : order[i].status \in OrderStatus

\* C6: an order is Pending when create_order inserts it, and a Pending
\* order leaves Pending only by an admin order-status update.
C6_OrdersStartPending ==
    [][/\ \A k \in DOMAIN order' :
             order'[k]._id \notin Ids(order) => order'[k].status = "Pending"
       /\ \A i \in DOMAIN order, k \in DOMAIN order' :
             (/\ order[i]._id = order'[k]._id
              /\ order[i].status = "Pending"
              /\ order'[k].status # "Pending")
                => last' = Resp("update_order_status", 200)]_vars

(* ------------------------------- slugs ------------------------------- *)
SlugUnique(coll) ==
    \A i, j \in DOMAIN coll : coll[i].slug = coll[j].slug => i = j

\* C4: no two categories and no two products share a slug, and a create
\* with a slug that is already stored answers 400 and inserts nothing.
C4_SlugUnique ==
    [][/\ SlugUnique(category') /\ SlugUnique(product')
       /\ \A h \in CatalogHeaders :
             ~Unauthorized(h) =>
                /\ \A b \in SlugCategoryBodies :
                      (/\ \E i \in DOMAIN category : category[i].slug = b.slug
                       /\ create_category(h, b))
                         => (last'.code = 400 /\ category' = category)
                /\ \A b \in SlugProductBodies :
                      (/\ \E i \in DOMAIN product : product[i].slug = b.slug
                       /\ create_product(h, b))
                         => (last'.code = 400 /\ product' = product)]_vars

====
